---- MODULE Spec2Model ----
(***************************************************************************)
(* Authentication / authorization core of the Coffee-Shop backend          *)
(* (backend/src/auth/auth.py) and the boundary it meets in                 *)
(* backend/src/api.py: the routes guarded by requires_auth and the         *)
(* AuthError error handler.                                                *)
(*                                                                         *)
(* Strings the code inspects character by character (the Authorization     *)
(* header, the compact token) are sequences of one-symbol strings.  A      *)
(* segment of a compact token is one symbol; what its base64url/JSON       *)
(* decoding yields is given by the tables DecodeHeaderSegment and          *)
(* DecodeClaimsSegment.                                                    *)
(***************************************************************************)
EXTENDS Integers, Sequences, FiniteSets, TLC

VARIABLES
    req,            \* per in-flight request: the locals of wrapper() and the response
    jwksEndpoint,   \* the key set the issuer currently publishes at /.well-known/jwks.json
    now             \* the clock jwt.decode reads when it validates exp

vars == <<req, jwksEndpoint, now>>

(***************************************************************************)
(* Bounds of the model.                                                    *)
(***************************************************************************)
\* the clock runs over 0..MaxTime
MaxTime == 2
\* an Authorization header value is made of at most MaxParts pieces
MaxParts == 4

(***************************************************************************)
(* Configuration (auth.py lines 8-10).                                     *)
(***************************************************************************)
AUTH0_DOMAIN == "dev-vibe.us.auth0.com"
ALGORITHMS == {"RS256"}
API_AUDIENCE == "coffee"

(***************************************************************************)
(* Exceptions and results.  A call either returns a value or raises.       *)
(***************************************************************************)
AuthError(code, description, status_code) ==
    [type |-> "AuthError",
     error |-> [code |-> code, description |-> description],
     status_code |-> status_code]

\* an exception of another class (urllib, json, jose, builtins)
Raised(type) == [type |-> type]

Return(v) == [ok |-> TRUE, value |-> v]
Raise(e) == [ok |-> FALSE, exc |-> e]

(***************************************************************************)
(* Python string operations used by the code.                              *)
(***************************************************************************)
\* str.lower(), character by character
lower_char(c) ==
    CASE c = "B" -> "b"
      [] c = "E" -> "e"
      [] c = "A" -> "a"
      [] c = "R" -> "r"
      [] c = "S" -> "s"
      [] c = "I" -> "i"
      [] c = "C" -> "c"
      [] OTHER -> c

lower(s) == [i \in 1..Len(s) |-> lower_char(s[i])]

\* least index of character sep in s, 0 when there is none
RECURSIVE find(_, _, _)
find(s, sep, i) ==
    IF i > Len(s) THEN 0
    ELSE IF s[i] = sep THEN i
    ELSE find(s, sep, i + 1)

\* s.split(sep) with an explicit one-character separator: every occurrence
\* of sep cuts, and empty pieces are kept
RECURSIVE split(_, _)
split(s, sep) ==
    LET i == find(s, sep, 1)
    IN  IF i = 0 THEN <<s>>
        ELSE <<SubSeq(s, 1, i - 1)>> \o split(SubSeq(s, i + 1, Len(s)), sep)

(***************************************************************************)
(* get_token_auth_header (auth.py lines 37-58).  headers is the request's  *)
(* header mapping: a function from header names to values.                 *)
(***************************************************************************)
\* a splitter that cuts at the first space only
auth_parts_of_mutant(value) ==
    LET i == find(value, " ", 1)
    IN  IF i = 0 THEN <<value>>
        ELSE <<SubSeq(value, 1, i - 1), SubSeq(value, i + 1, Len(value))>>

\* line 47: data['Authorization'].split(' ')
auth_parts_of(value) == split(value, " ")

\* an extractor that answers a missing header with invalid_header
get_token_auth_header_mutant(headers) ==
    IF "Authorization" \notin DOMAIN headers
    THEN Raise(AuthError("invalid_header",
                         "header must start with 'Bearer' and include proper token",
                         401))
    ELSE LET auth_parts == auth_parts_of(headers["Authorization"])
         IN  IF Len(auth_parts) # 2 \/ lower(auth_parts[1]) # <<"b","e","a","r","e","r">>
             THEN Raise(AuthError("invalid_header",
                     "header must start with 'Bearer' and include proper token",
                     401))
             ELSE Return(auth_parts[2])

get_token_auth_header(headers) ==
    IF "Authorization" \notin DOMAIN headers
    THEN Raise(AuthError("authorization_header_missing",
                         "Authorization header is expected", 401))
    ELSE LET auth_parts == auth_parts_of(headers["Authorization"])
         IN  IF Len(auth_parts) # 2 \/ lower(auth_parts[1]) # <<"b","e","a","r","e","r">>
             THEN Raise(AuthError("invalid_header",
                     "header must start with 'Bearer' and include proper token",
                     401))
             ELSE Return(auth_parts[2])

(***************************************************************************)
(* check_permissions (auth.py lines 74-90).  payload is the decoded claim  *)
(* set: a record; its permissions field, when present, is a set.           *)
(***************************************************************************)
\* an enforcer that lets the empty requirement through
check_permissions_mutant(permission, payload) ==
    IF "permissions" \notin DOMAIN payload
    THEN Raise(AuthError("missing_permissions",
                         "permissions must be sent with token", 401))
    ELSE IF permission # "" /\ permission \notin payload.permissions
    THEN Raise(AuthError("not_authorized",
                         "needed permission not found in permissions", 401))
    ELSE Return(TRUE)

check_permissions(permission, payload) ==
    IF "permissions" \notin DOMAIN payload
    THEN Raise(AuthError("missing_permissions",
                         "permissions must be sent with token", 401))
    ELSE IF permission \notin payload.permissions
    THEN Raise(AuthError("not_authorized",
                         "needed permission not found in permissions", 401))
    ELSE Return(TRUE)

(***************************************************************************)
(* The issuer's keys and the compact tokens.                               *)
(***************************************************************************)
\* an entry of the published key set, with the five fields the code reads
Jwk(kid, n) == [kty |-> "RSA", kid |-> kid, use |-> "sig", n |-> n, e |-> "AQAB"]

\* the key sets the issuer publishes over time: rotation adds k2, then retires k1
KeySets ==
    { <<>>,
      <<Jwk("k1", "n1")>>,
      <<Jwk("k1", "n1"), Jwk("k2", "n2")>>,
      <<Jwk("k2", "n2")>> }

\* what the key-set request can come back with: a transport failure, a body
\* that is not JSON, a JSON object without "keys", or the published key set
FetchOutcomes == {"URLError", "not_json", "no_keys", "ok"}

\* base64url + JSON decoding of a token's header segment
DecodeHeaderSegment(seg) ==
    CASE seg = <<"hK1">>    -> Return([alg |-> "RS256", typ |-> "JWT", kid |-> "k1"])
      [] seg = <<"hK2">>    -> Return([alg |-> "RS256", typ |-> "JWT", kid |-> "k2"])
      [] seg = <<"hHS">>    -> Return([alg |-> "HS256", typ |-> "JWT", kid |-> "k1"])
      [] seg = <<"hNoKid">> -> Return([alg |-> "RS256", typ |-> "JWT"])
      [] OTHER          -> Raise(Raised("JWSError"))

AllPermissions == {"get:drinks-detail", "post:drinks", "patch:drinks", "delete:drinks"}

Claims(iss, aud, exp) == [iss |-> iss, aud |-> aud, exp |-> exp]

GoodIssuer == "https://" \o AUTH0_DOMAIN \o "/"

WithPermissions(claims, permissions) ==
    [k \in DOMAIN claims \cup {"permissions"} |->
        IF k = "permissions" THEN permissions ELSE claims[k]]

\* base64url + JSON decoding of a token's claims segment
DecodeClaimsSegment(seg) ==
    CASE seg = <<"pAll">>    -> Return(WithPermissions(Claims(GoodIssuer, API_AUDIENCE, 1), AllPermissions))
      [] seg = <<"pGet">>    -> Return(WithPermissions(Claims(GoodIssuer, API_AUDIENCE, 1), {"get:drinks-detail"}))
      [] seg = <<"pEmpty">>  -> Return(WithPermissions(Claims(GoodIssuer, API_AUDIENCE, 1), {}))
      [] seg = <<"pBlank">>  -> Return(WithPermissions(Claims(GoodIssuer, API_AUDIENCE, 1), {"", "post:drinks"}))
      [] seg = <<"pNoPerm">> -> Return(Claims(GoodIssuer, API_AUDIENCE, 1))
      [] seg = <<"pOld">>    -> Return(WithPermissions(Claims(GoodIssuer, API_AUDIENCE, 0), AllPermissions))
      [] seg = <<"pAud">>    -> Return(WithPermissions(Claims(GoodIssuer, "other-api", 1), AllPermissions))
      [] seg = <<"pIss">>    -> Return(WithPermissions(Claims("https://evil.example/", API_AUDIENCE, 1), AllPermissions))
      [] seg = <<"pOldAud">> -> Return(WithPermissions(Claims(GoodIssuer, "other-api", 0), AllPermissions))
      [] OTHER           -> Raise(Raised("JWTError"))

\* the modulus of the RSA key whose private half made the signature over
\* this token's signing input; "none" for bytes no key verifies
SignerOf(seg) ==
    CASE seg = <<"sN1">> -> "n1"
      [] seg = <<"sN2">> -> "n2"
      [] OTHER       -> "none"

\* jws._load: three dot-separated segments, of which the header must decode
jws_load(token) ==
    LET segs == split(token, ".")
    IN  IF Len(segs) # 3 THEN Raise(Raised("JWSError"))
        ELSE LET h == DecodeHeaderSegment(segs[1])
             IN  IF ~h.ok THEN h
                 ELSE Return([header |-> h.value, claims |-> segs[2], signature |-> segs[3]])

\* jwt.get_unverified_header (line 114): any failure leaves as a JWTError
get_unverified_header(token) ==
    LET l == jws_load(token)
    IN  IF l.ok THEN Return(l.value.header) ELSE Raise(Raised("JWTError"))

\* jwt.decode(token, rsa_key, algorithms=, audience=, issuer=) of lines
\* 138-144, at clock reading t: the signature first, exp before aud and iss
jwt_decode(token, key, algorithms, audience, issuer, t) ==
    LET l == jws_load(token)
    IN  IF ~l.ok THEN Raise(Raised("JWTError"))
        ELSE IF l.value.header.alg \notin algorithms THEN Raise(Raised("JWTError"))
        ELSE IF key.kty # "RSA" \/ SignerOf(l.value.signature) # key.n
             THEN Raise(Raised("JWTError"))
        ELSE LET c == DecodeClaimsSegment(l.value.claims)
             IN  IF ~c.ok THEN Raise(Raised("JWTError"))
                 ELSE IF "exp" \in DOMAIN c.value /\ c.value.exp < t
                      THEN Raise(Raised("ExpiredSignatureError"))
                 ELSE IF "aud" \in DOMAIN c.value /\ c.value.aud # audience
                      THEN Raise(Raised("JWTClaimsError"))
                 ELSE IF c.value.iss # issuer
                      THEN Raise(Raised("JWTClaimsError"))
                 ELSE c

(***************************************************************************)
(* verify_decode_jwt (auth.py lines 109-162), in its two parts: the        *)
(* key-set request of lines 112-113 and the verification of lines 114-162. *)
(***************************************************************************)
\* a client that keeps the key set it was deployed with
urlopen_jwks_mutant(published, outcome) ==
    CASE outcome = "URLError" -> Raise(Raised("URLError"))
      [] outcome = "not_json" -> Raise(Raised("JSONDecodeError"))
      [] outcome = "no_keys"  -> Return([message |-> "Not Found"])
      [] OTHER                -> Return([keys |-> <<Jwk("k1", "n1")>>])

\* lines 112-113: urlopen(...), read, json.loads; published is what the
\* issuer serves at that moment
urlopen_jwks(published, outcome) ==
    CASE outcome = "URLError" -> Raise(Raised("URLError"))
      [] outcome = "not_json" -> Raise(Raised("JSONDecodeError"))
      [] outcome = "no_keys"  -> Return([message |-> "Not Found"])
      [] OTHER                -> Return([keys |-> published])

\* rsa_key = {} of line 115
EmptyDict == <<>>

\* a scan that takes the first published key whatever its kid
select_rsa_key_mutant(keys, kid) ==
    IF keys = <<>> THEN EmptyDict ELSE keys[1]

\* the loop of lines 125-133: the last entry whose kid matches, else {}
RECURSIVE select_rsa_key(_, _)
select_rsa_key(keys, kid) ==
    IF keys = <<>> THEN EmptyDict
    ELSE LET key == keys[Len(keys)]
         IN  IF key.kid = kid
             THEN [kty |-> key.kty, kid |-> key.kid, use |-> key.use,
                   n |-> key.n, e |-> key.e]
             ELSE select_rsa_key(SubSeq(keys, 1, Len(keys) - 1), kid)

\* a handler chain that reports every claims failure as an expired token
decode_error_mutant(exc) ==
    CASE exc.type = "ExpiredSignatureError" ->
            AuthError("token_expired", "token is expired", 401)
      [] exc.type = "JWTClaimsError" ->
            AuthError("token_expired", "token is expired", 401)
      [] OTHER ->
            AuthError("invalid_header", "Unable to parse authentication token.", 401)

\* the except clauses of lines 147-159
decode_error(exc) ==
    CASE exc.type = "ExpiredSignatureError" ->
            AuthError("token_expired", "token is expired", 401)
      [] exc.type = "JWTClaimsError" ->
            AuthError("invalid_claims",
                      "incorrect claims,please check the audience and issuer", 401)
      [] OTHER ->
            AuthError("invalid_header", "Unable to parse authentication token.", 401)

\* lines 114-162, with jwks the parsed response and t the clock reading:
\* the outcome, and the rsa_key local as line 136 finds it
verify_with(token, jwks, t) ==
    LET unverified_header == get_unverified_header(token)
    IN  IF ~unverified_header.ok
        THEN [outcome |-> unverified_header, rsa_key |-> EmptyDict]
        ELSE IF "kid" \notin DOMAIN unverified_header.value
        THEN [outcome |-> Raise(AuthError("invalid_header", "Authorization malformed.", 401)),
              rsa_key |-> EmptyDict]
        ELSE IF "keys" \notin DOMAIN jwks
        THEN [outcome |-> Raise(Raised("KeyError")), rsa_key |-> EmptyDict]
        ELSE LET rsa_key == select_rsa_key(jwks.keys, unverified_header.value.kid)
             IN  IF rsa_key # EmptyDict
                 THEN LET d == jwt_decode(token, rsa_key, ALGORITHMS, API_AUDIENCE,
                                          "https://" \o AUTH0_DOMAIN \o "/", t)
                      IN  [outcome |-> IF d.ok THEN d ELSE Raise(decode_error(d.exc)),
                           rsa_key |-> rsa_key]
                 ELSE [outcome |-> Raise(AuthError("invalid_header",
                                            "Unable to find appropriate key", 401)),
                       rsa_key |-> rsa_key]

(***************************************************************************)
(* The routes of api.py and the boundary error handlers.                   *)
(***************************************************************************)
Route(method, rule, guarded, permission, view_args) ==
    [method |-> method, rule |-> rule, guarded |-> guarded,
     permission |-> permission, view_args |-> view_args]

\* api.py lines 33, 54-55, 77-78, 112-113, 147-148
PublicRoutes == { Route("GET", "/drinks", FALSE, "", <<>>) }

ProtectedRoutes ==
    { Route("GET", "/drinks-detail", TRUE, "get:drinks-detail", <<>>),
      Route("POST", "/drinks", TRUE, "post:drinks", <<>>),
      Route("PATCH", "/drinks/<int:id>", TRUE, "patch:drinks", [id |-> 5]),
      Route("DELETE", "/drinks/<int:id>", TRUE, "delete:drinks", [id |-> 5]) }

\* the statuses a view function can end with (200, or one of its aborts)
ViewStatuses(route) ==
    CASE route.method = "GET"  -> {200}
      [] route.method = "POST" -> {200, 400, 422}
      [] OTHER                 -> {200, 404, 422}

\* the view's own response, and the handlers of api.py lines 169-210
view_response(status) ==
    CASE status = 200 -> [status |-> 200, body |-> [success |-> TRUE]]
      [] status = 400 -> [status |-> 400, body |->
                            [success |-> FALSE, error |-> 400, message |-> "bad request"]]
      [] status = 404 -> [status |-> 404, body |->
                            [success |-> FALSE, error |-> 404, message |-> "resource not found"]]
      [] OTHER        -> [status |-> 422, body |->
                            [success |-> FALSE, error |-> 422, message |-> "unprocessable"]]

\* api.py lines 218-224
auth_error(exception) ==
    [status |-> exception.status_code,
     body |-> [success |-> FALSE, error |-> exception.status_code,
               message |-> exception.error.description]]

\* an exception leaving the view: the AuthError handler is the only one
\* registered for an exception class; any other class gets the framework's 500
handle_exception(exc) ==
    IF exc.type = "AuthError" THEN auth_error(exc)
    ELSE [status |-> 500, body |-> [html |-> "Internal Server Error"]]

(***************************************************************************)
(* requires_auth (auth.py lines 177-187) and the requests it serves.       *)
(***************************************************************************)
\* the requests served at the same time
Slots == {"r1", "r2"}

\* the order of lines 181-184 (urlopen and verify are the two parts of
\* verify_decode_jwt): the stage that follows a stage that returned
after(stage) ==
    CASE stage = "get_token_auth_header" -> "urlopen"
      [] stage = "urlopen"               -> "verify"
      [] stage = "verify"                -> "check_permissions"
      [] stage = "check_permissions"     -> "f"
      [] OTHER                           -> "done"

\* line 184, f(*args, **kwargs): the keyword arguments the view receives
call_view(view_args, payload) == view_args

NoException == [type |-> "none"]

\* a slot that serves no request
Idle ==
    [pc |-> "idle",
     route |-> Route("", "", FALSE, "", <<>>),
     headers |-> <<>>,
     token |-> <<>>,
     jwks |-> EmptyDict,
     rsa_key |-> EmptyDict,
     payload |-> EmptyDict,
     exc |-> NoException,
     response |-> [status |-> 0, body |-> <<>>],
     calls |-> 0,
     received |-> <<>>,
     fetches |-> 0,
     fetchOutcome |-> "none",
     stages |-> <<>>]

\* an exception leaves wrapper(): the request ends with the boundary's response
Fail(q, exc) ==
    [q EXCEPT !.pc = "done", !.exc = exc, !.response = handle_exception(exc)]

\* a stage returned
Pass(q) ==
    [q EXCEPT !.pc = after(q.pc), !.stages = Append(q.stages, q.pc)]

\* a request arrives in slot r: a guarded route enters wrapper(), the public
\* route goes to its view
Receive(r, requests) ==
    /\ req[r].pc = "idle"
    /\ \E q \in requests :
          req' = [req EXCEPT ![r] =
                    [Idle EXCEPT !.pc = IF q.route.guarded
                                        THEN "get_token_auth_header" ELSE "f",
                                 !.route = q.route,
                                 !.headers = q.headers]]
    /\ UNCHANGED <<jwksEndpoint, now>>

\* line 181
GetTokenAuthHeader(r) ==
    /\ req[r].pc = "get_token_auth_header"
    /\ LET res == get_token_auth_header(req[r].headers)
       IN  req' = [req EXCEPT ![r] =
                     IF res.ok THEN Pass([@ EXCEPT !.token = res.value])
                     ELSE Fail(@, res.exc)]
    /\ UNCHANGED <<jwksEndpoint, now>>

\* line 182, first part: the key-set request
UrlOpen(r) ==
    /\ req[r].pc = "urlopen"
    /\ \E o \in FetchOutcomes :
          LET res == urlopen_jwks(jwksEndpoint, o)
              q == [req[r] EXCEPT !.fetches = @ + 1, !.fetchOutcome = o]
          IN  req' = [req EXCEPT ![r] =
                        IF res.ok THEN Pass([q EXCEPT !.jwks = res.value])
                        ELSE Fail(q, res.exc)]
    /\ UNCHANGED <<jwksEndpoint, now>>

\* line 182, second part: the header pre-parse, the key scan and the decode
Verify(r) ==
    /\ req[r].pc = "verify"
    /\ LET v == verify_with(req[r].token, req[r].jwks, now)
           q == [req[r] EXCEPT !.rsa_key = v.rsa_key]
       IN  req' = [req EXCEPT ![r] =
                     IF v.outcome.ok THEN Pass([q EXCEPT !.payload = v.outcome.value])
                     ELSE Fail(q, v.outcome.exc)]
    /\ UNCHANGED <<jwksEndpoint, now>>

\* line 183
CheckPermissions(r) ==
    /\ req[r].pc = "check_permissions"
    /\ LET res == check_permissions(req[r].route.permission, req[r].payload)
       IN  req' = [req EXCEPT ![r] = IF res.ok THEN Pass(@) ELSE Fail(@, res.exc)]
    /\ UNCHANGED <<jwksEndpoint, now>>

\* line 184 (and the public view): the view runs and answers
Invoke(r) ==
    /\ req[r].pc = "f"
    /\ \E status \in ViewStatuses(req[r].route) :
          req' = [req EXCEPT ![r] =
                    Pass([req[r] EXCEPT !.calls = @ + 1,
                                   !.received = call_view(req[r].route.view_args,
                                                          req[r].payload),
                                   !.response = view_response(status)])]
    /\ UNCHANGED <<jwksEndpoint, now>>

\* the response is sent and the slot is free again
Complete(r) ==
    /\ req[r].pc = "done"
    /\ req' = [req EXCEPT ![r] = Idle]
    /\ UNCHANGED <<jwksEndpoint, now>>

\* the issuer publishes another key set
Rotate ==
    /\ \E ks \in KeySets \ {jwksEndpoint} : jwksEndpoint' = ks
    /\ UNCHANGED <<req, now>>

\* time passes
Tick ==
    /\ now < MaxTime
    /\ now' = now + 1
    /\ UNCHANGED <<req, jwksEndpoint>>

(***************************************************************************)
(* The inputs: header values, tokens, requests.                            *)
(***************************************************************************)
Bearer == <<"B", "e", "a", "r", "e", "r">>
bearer == <<"b", "e", "a", "r", "e", "r">>
BEARER == <<"B", "E", "A", "R", "E", "R">>
Basic == <<"B", "a", "s", "i", "c">>
SP == <<" ">>
TAB == <<"\t">>

\* header.claims.signature
Compact(h, p, s) == <<h, ".", p, ".", s>>

HeaderSegments == {"hK1", "hK2", "hHS", "hNoKid", "hJunk"}
ClaimsSegments == {"pAll", "pGet", "pEmpty", "pBlank", "pNoPerm", "pOld", "pAud",
                   "pIss", "pOldAud", "pJunk"}
SignatureSegments == {"sN1", "sN2", "sJunk"}

\* every token string of the verifier's specification: the well-formed
\* compact tokens, and strings with fewer than three segments
AllTokens ==
    { Compact(h, p, s) : h \in HeaderSegments, p \in ClaimsSegments, s \in SignatureSegments }
    \cup { <<>>, <<"hK1">>, <<"hK1", ".", "pAll">> }

GoodToken == Compact("hK1", "pAll", "sN1")

\* the tokens of the requests of the whole-request specifications
RequestTokens ==
    { GoodToken,
      Compact("hK2", "pAll", "sN2"),
      Compact("hK1", "pGet", "sN1"),
      Compact("hK1", "pNoPerm", "sN1"),
      Compact("hK1", "pOld", "sN1"),
      Compact("hK1", "pAud", "sN1"),
      Compact("hK1", "pAll", "sJunk"),
      Compact("hNoKid", "pAll", "sN1"),
      <<"hK1">> }

RECURSIVE Flatten(_)
Flatten(parts) ==
    IF parts = <<>> THEN <<>> ELSE Head(parts) \o Flatten(Tail(parts))

\* every Authorization value made of at most MaxParts pieces
HeaderPieces == {SP, TAB, Bearer, bearer, BEARER, Basic, GoodToken, <<"hK1">>}

AllHeaderValues ==
    { Flatten(parts) : parts \in UNION { [1..n -> HeaderPieces] : n \in 0..MaxParts } }

Authorization(value) == [k \in {"Authorization"} |-> value]

NoAuthorization ==
    { <<>>, [k \in {"Content-Type"} |-> <<"application/json">>] }

RequestHeaders ==
    NoAuthorization
    \cup { Authorization(Bearer \o SP \o t) : t \in RequestTokens }
    \cup { Authorization(v) : v \in { bearer \o SP \o GoodToken,
                                      Basic \o SP \o GoodToken,
                                      Bearer,
                                      Bearer \o SP,
                                      Bearer \o SP \o SP \o GoodToken,
                                      Bearer \o TAB \o GoodToken } }

Requests ==
    { [route |-> rt, headers |-> h] : rt \in ProtectedRoutes, h \in RequestHeaders }
    \cup { [route |-> rt, headers |-> h] :
              rt \in PublicRoutes,
              h \in { <<>>, Authorization(Bearer \o SP \o GoodToken) } }

\* the requests of the specification of concurrent requests
ConcurrentRequests ==
    { [route |-> rt, headers |-> h] :
        rt \in { rt \in ProtectedRoutes : rt.method = "DELETE" },
        h \in { <<>>,
                Authorization(Basic \o SP \o GoodToken),
                Authorization(Bearer \o SP \o GoodToken),
                Authorization(Bearer \o SP \o Compact("hK2", "pAll", "sN2")) } }

(***************************************************************************)
(* Specifications.                                                         *)
(***************************************************************************)
Init ==
    /\ req = [r \in Slots |-> Idle]
    /\ jwksEndpoint = <<Jwk("k1", "n1")>>
    /\ now = 0

\* requests served one after the other, while the issuer rotates its keys
\* and time passes
Next ==
    \/ \E r \in {"r1"} :
          \/ Receive(r, Requests)
          \/ GetTokenAuthHeader(r)
          \/ UrlOpen(r)
          \/ Verify(r)
          \/ CheckPermissions(r)
          \/ Invoke(r)
          \/ Complete(r)
    \/ Rotate
    \/ Tick

Spec == Init /\ [][Next]_vars

\* requests served at the same time
NextConcurrent ==
    \/ \E r \in Slots :
          \/ Receive(r, ConcurrentRequests)
          \/ GetTokenAuthHeader(r)
          \/ UrlOpen(r)
          \/ Verify(r)
          \/ CheckPermissions(r)
          \/ Invoke(r)
          \/ Complete(r)
    \/ Rotate
    \/ Tick

SpecConcurrent == Init /\ [][NextConcurrent]_vars

\* a request in slot r1 that has reached stage pc
At(pc, fields) ==
    [r \in Slots |-> IF r = "r1" THEN [fields EXCEPT !.pc = pc] ELSE Idle]

\* get_token_auth_header on every header value
InitHeader ==
    /\ \E rt \in { rt \in ProtectedRoutes : rt.method = "GET" }, v \in AllHeaderValues :
          req = At("get_token_auth_header",
                   [Idle EXCEPT !.route = rt, !.headers = Authorization(v)])
    /\ jwksEndpoint = <<Jwk("k1", "n1")>>
    /\ now = 0

NextHeader == \E r \in Slots : GetTokenAuthHeader(r)

SpecHeader == InitHeader /\ [][NextHeader]_vars

\* verify_decode_jwt on every token, key set and clock reading
InitVerify ==
    /\ \E rt \in { rt \in ProtectedRoutes : rt.method = "GET" }, t \in AllTokens :
          req = At("urlopen",
                   [Idle EXCEPT !.route = rt,
                                !.headers = Authorization(Bearer \o SP \o t),
                                !.token = t,
                                !.stages = <<"get_token_auth_header">>])
    /\ jwksEndpoint \in KeySets
    /\ now \in 0..MaxTime

NextVerify == \E r \in Slots : UrlOpen(r) \/ Verify(r)

SpecVerify == InitVerify /\ [][NextVerify]_vars

\* the claim sets check_permissions can be given
ClaimSets ==
    { Claims("https://" \o AUTH0_DOMAIN \o "/", API_AUDIENCE, 1) }
    \cup { WithPermissions(Claims("https://" \o AUTH0_DOMAIN \o "/", API_AUDIENCE, 1), ps) :
              ps \in SUBSET (AllPermissions \cup {""}) }

\* check_permissions on every required permission and claim set
InitPermissions ==
    /\ \E p \in AllPermissions \cup {""}, c \in ClaimSets :
          req = At("check_permissions",
                   [Idle EXCEPT !.route = Route("GET", "/guarded", TRUE, p, <<>>),
                                !.payload = c,
                                !.stages = <<"get_token_auth_header", "urlopen", "verify">>])
    /\ jwksEndpoint = <<Jwk("k1", "n1")>>
    /\ now = 0

NextPermissions == \E r \in Slots : CheckPermissions(r)

SpecPermissions == InitPermissions /\ [][NextPermissions]_vars

(***************************************************************************)
(* Properties.                                                             *)
(***************************************************************************)
GateStages == <<"get_token_auth_header", "urlopen", "verify", "check_permissions">>

\* the request of slot r has left wrapper() with an exception
Failed(q) == q.pc = "done" /\ q.exc # NoException

\* C1: on a guarded route the view starts only after get_token_auth_header,
\* the key-set request and verification, and check_permissions have all
\* returned, in that order; a request that a stage fails ends with an
\* AuthError rendered by the AuthError handler, and its view is never invoked.
C1_GateBeforeView ==
    \A r \in Slots :
        LET q == req[r]
        IN  q.route.guarded =>
              /\ (q.pc = "f" \/ q.calls > 0) =>
                    /\ Len(q.stages) >= 4
                    /\ SubSeq(q.stages, 1, 4) = GateStages
              /\ Failed(q) =>
                    /\ q.calls = 0
                    /\ q.exc.type = "AuthError"
                    /\ q.response = auth_error(q.exc)
              /\ (q.pc = "done" /\ q.calls = 0) => Failed(q)

\* C2: a request whose token verified (signature, issuer, audience and
\* expiry all passed) and whose permissions contain the route's permission
\* runs the view exactly once, and the view receives the decoded claim set.
C2_ValidTokenRunsViewWithClaims ==
    \A r \in Slots :
        LET q == req[r]
        IN  ( /\ q.pc = "done"
              /\ q.route.guarded
              /\ q.payload # EmptyDict
              /\ "permissions" \in DOMAIN q.payload
              /\ q.route.permission \in q.payload.permissions )
            => /\ q.calls = 1
               /\ "payload" \in DOMAIN q.received
               /\ q.received.payload = q.payload

\* C3: a request to a guarded route without an Authorization header ends,
\* whatever its route and other headers, with AuthError
\* authorization_header_missing / 401, rendered as status 401 with body
\* {success: false, error: 401, message: "Authorization header is expected"},
\* and the view is not invoked.
C3_MissingHeaderIs401 ==
    \A r \in Slots :
        LET q == req[r]
        IN  ( /\ q.route.guarded
              /\ "Authorization" \notin DOMAIN q.headers
              /\ q.pc # "get_token_auth_header" )
            => /\ q.pc = "done"
               /\ q.exc = AuthError("authorization_header_missing",
                                    "Authorization header is expected", 401)
               /\ q.response =
                    [status |-> 401,
                     body |-> [success |-> FALSE, error |-> 401,
                               message |-> "Authorization header is expected"]]
               /\ q.calls = 0
               /\ q.fetches = 0

C3_Witness ==
    \E r \in Slots :
        /\ req[r].pc = "done"
        /\ req[r].route.method = "DELETE"
        /\ DOMAIN req[r].headers = {"Content-Type"}
        /\ req[r].response.status = 401

InvalidHeader ==
    AuthError("invalid_header",
              "header must start with 'Bearer' and include proper token", 401)

\* the positions of character c in s
Positions(s, c) == { i \in 1..Len(s) : s[i] = c }

\* C4 (amended): the header value is cut at every single space character,
\* and at no other whitespace; the extractor fails with invalid_header / 401
\* unless that gives exactly two parts (the value holds exactly one space)
\* and the first is "bearer" in any letter case, and then it returns the
\* second part verbatim.
C4_SplitOnSingleSpaces ==
    \A r \in Slots :
        LET q == req[r]
        IN  ( /\ "Authorization" \in DOMAIN q.headers
              /\ q.pc \notin {"idle", "get_token_auth_header"} )
            => LET v == q.headers["Authorization"]
                   sp == Positions(v, " ")
               IN  IF /\ Cardinality(sp) = 1
                      /\ \A i \in sp : lower(SubSeq(v, 1, i - 1)) = bearer
                   THEN /\ q.pc = "urlopen"
                        /\ \A i \in sp : q.token = SubSeq(v, i + 1, Len(v))
                   ELSE /\ q.pc = "done"
                        /\ q.exc = InvalidHeader
                        /\ q.response.status = 401

C4_Witness ==
    \E r \in Slots :
        /\ req[r].pc = "urlopen"
        /\ req[r].headers = Authorization(BEARER \o SP \o GoodToken)
        /\ req[r].token = GoodToken

IsWhitespace(c) == c \in {" ", "\t"}

\* s.split() with no separator: the maximal runs of non-whitespace
RECURSIVE whitespace_split(_, _)
whitespace_split(s, word) ==
    IF s = <<>> THEN (IF word = <<>> THEN <<>> ELSE <<word>>)
    ELSE IF IsWhitespace(Head(s))
         THEN (IF word = <<>> THEN <<>> ELSE <<word>>) \o whitespace_split(Tail(s), <<>>)
         ELSE whitespace_split(Tail(s), Append(word, Head(s)))

\* C4 (as stated): the header value is split on whitespace; the extractor
\* fails with invalid_header / 401 unless that gives exactly two tokens and
\* the first is "bearer" in any letter case, and then it returns the second.
C4_SplitOnWhitespace ==
    \A r \in Slots :
        LET q == req[r]
        IN  ( /\ "Authorization" \in DOMAIN q.headers
              /\ q.pc \notin {"idle", "get_token_auth_header"} )
            => LET parts == whitespace_split(q.headers["Authorization"], <<>>)
               IN  IF Len(parts) = 2 /\ lower(parts[1]) = bearer
                   THEN q.pc = "urlopen" /\ q.token = parts[2]
                   ELSE q.pc = "done" /\ q.exc = InvalidHeader

FetchFailures == {"URLError", "not_json", "no_keys"}

\* C5: a request whose key-set request failed (transport error, a body that
\* is not JSON, a JSON object without keys) ends with an AuthError of status
\* 401 or 500 rendered by the AuthError handler, and its view is not invoked.
C5_FetchFailureIsAuthError ==
    \A r \in Slots :
        LET q == req[r]
        IN  (q.pc = "done" /\ q.fetchOutcome \in FetchFailures)
            => /\ q.exc.type = "AuthError"
               /\ q.exc.status_code \in {401, 500}
               /\ q.response = auth_error(q.exc)
               /\ q.calls = 0

\* the request of slot r has been through the verification of lines 114-162
\* with a key set in hand
Verified(q) ==
    /\ q.fetchOutcome = "ok"
    /\ q.pc \in {"check_permissions", "f", "done"}

\* the token's header as its first segment decodes
HeaderOf(token) == DecodeHeaderSegment(split(token, ".")[1])

HasThreeSegments(token) == Cardinality(Positions(token, ".")) = 2

\* the token's header segment parses and names a key
NamesKey(token) ==
    /\ HasThreeSegments(token)
    /\ HeaderOf(token).ok
    /\ "kid" \in DOMAIN HeaderOf(token).value

\* C6: with the key set fetched, a token string whose header segment cannot
\* be parsed or has no kid (the empty string and strings of fewer than three
\* segments included) ends in AuthError invalid_header / 401, and
\* verify_decode_jwt ends with no failure other than an AuthError.
C6_BadTokenIsInvalidHeader ==
    \A r \in Slots :
        LET q == req[r]
        IN  (Verified(q) /\ Failed(q))
            => /\ q.exc.type = "AuthError"
               /\ ~NamesKey(q.token) =>
                     /\ q.exc.error.code = "invalid_header"
                     /\ q.exc.status_code = 401

\* C7: when the kid of the token's header is the kid of no entry of the
\* fetched key set (the empty key set included), verification fails with
\* AuthError invalid_header / 401 "Unable to find appropriate key" and no
\* key is handed to the decoder; when some entry matches, the key handed to
\* the decoder is an entry of the key set with the token's kid.
C7_KeyIsChosenByKid ==
    \A r \in Slots :
        LET q == req[r]
        IN  (Verified(q) /\ NamesKey(q.token))
            => LET kid == HeaderOf(q.token).value.kid
                   matching == { i \in 1..Len(q.jwks.keys) : q.jwks.keys[i].kid = kid }
               IN  IF matching = {}
                   THEN /\ q.pc = "done"
                        /\ q.exc = AuthError("invalid_header",
                                             "Unable to find appropriate key", 401)
                        /\ q.rsa_key = EmptyDict
                   ELSE /\ q.rsa_key # EmptyDict
                        /\ q.rsa_key.kid = kid
                        /\ \E i \in matching : q.rsa_key = q.jwks.keys[i]

C7_Witness ==
    \E r \in Slots :
        /\ req[r].pc = "done"
        /\ req[r].token = Compact("hK2", "pAll", "sN2")
        /\ req[r].jwks = [keys |-> <<Jwk("k1", "n1")>>]
        /\ req[r].exc.error.description = "Unable to find appropriate key"

\* C8: with a matching key, verification ends as follows.  A valid RS256
\* signature and exp in the past: AuthError token_expired / 401.  A valid
\* signature, exp not in the past, and an audience other than API_AUDIENCE
\* or an issuer other than https://AUTH0_DOMAIN/: AuthError invalid_claims /
\* 401.  An invalid signature, another algorithm or claims that do not
\* decode: AuthError invalid_header / 401.  The decoded payload is returned
\* exactly when signature, expiry, audience and issuer all pass.
C8_DecodeOutcomes ==
    \A r \in Slots :
        LET q == req[r]
        IN  (Verified(q) /\ NamesKey(q.token) /\ q.rsa_key # EmptyDict)
            => LET segs == split(q.token, ".")
                   signed == /\ HeaderOf(q.token).value.alg = "RS256"
                             /\ SignerOf(segs[3]) = q.rsa_key.n
                   c == DecodeClaimsSegment(segs[2])
                   code == IF Failed(q) /\ q.exc.type = "AuthError"
                           THEN q.exc.error.code ELSE "none"
               IN  IF ~signed \/ ~c.ok
                   THEN code = "invalid_header" /\ q.exc.status_code = 401
                   ELSE IF c.value.exp < now
                   THEN code = "token_expired" /\ q.exc.status_code = 401
                   ELSE IF c.value.aud # API_AUDIENCE
                           \/ c.value.iss # "https://" \o AUTH0_DOMAIN \o "/"
                   THEN code = "invalid_claims" /\ q.exc.status_code = 401
                   ELSE /\ q.pc = "check_permissions"
                        /\ q.exc = NoException
                        /\ q.payload = c.value

C8_Witness ==
    \E r \in Slots :
        /\ req[r].pc = "done"
        /\ req[r].token = Compact("hK1", "pOldAud", "sN1")
        /\ req[r].rsa_key = Jwk("k1", "n1")
        /\ req[r].exc.error.code = "token_expired"
        /\ now = 2

\* C9: check_permissions(p, c) fails with AuthError missing_permissions /
\* 401 when c has no permissions field, fails with AuthError not_authorized /
\* 401 when c has a permissions field of which p is not a member, and
\* succeeds otherwise; the empty p is treated like any other.
C9_PermissionMembership ==
    \A r \in Slots :
        LET q == req[r]
            p == q.route.permission
        IN  (q.route.guarded /\ q.pc \in {"f", "done"})
            => IF "permissions" \notin DOMAIN q.payload
               THEN /\ q.pc = "done"
                    /\ q.exc = AuthError("missing_permissions",
                                         "permissions must be sent with token", 401)
               ELSE IF p \notin q.payload.permissions
               THEN /\ q.pc = "done"
                    /\ q.exc = AuthError("not_authorized",
                                "needed permission not found in permissions", 401)
               ELSE q.pc = "f" /\ q.exc = NoException

C9_Witness ==
    \E r \in Slots :
        /\ req[r].pc = "done"
        /\ req[r].route.permission = ""
        /\ "permissions" \in DOMAIN req[r].payload
        /\ req[r].payload.permissions = {"post:drinks"}
        /\ req[r].exc.error.code = "not_authorized"

\* the kids of a key set
Kids(keys) == { keys[i].kid : i \in 1..Len(keys) }

\* C10: a request asks for the key set once, when it reaches verification,
\* and not at all when its Authorization header is missing or malformed; the
\* key set it verifies against is the one the issuer publishes at the moment
\* it asks, whatever other requests fetched before or meanwhile: a token
\* whose kid is no longer published fails with invalid_header, a token
\* signed with a key published by then is verified with that key.
C10_FreshKeySetPerRequest ==
    /\ [][\A r \in Slots :
            (req[r].pc = "urlopen" /\ req'[r].pc = "verify" /\ req'[r].fetchOutcome = "ok")
            => req'[r].jwks = [keys |-> jwksEndpoint]]_vars
    /\ [](\A r \in Slots :
            LET q == req[r]
            IN  /\ q.fetches = IF \/ q.pc \in {"verify", "check_permissions"}
                                  \/ /\ q.route.guarded
                                     /\ q.pc \in {"f", "done"}
                                     /\ q.stages # <<>>
                               THEN 1 ELSE 0
                /\ (Verified(q) /\ NamesKey(q.token)) =>
                      IF HeaderOf(q.token).value.kid \in Kids(q.jwks.keys)
                      THEN /\ q.rsa_key \in { q.jwks.keys[i] : i \in 1..Len(q.jwks.keys) }
                           /\ q.rsa_key.kid = HeaderOf(q.token).value.kid
                      ELSE /\ q.pc = "done"
                           /\ q.exc.error.code = "invalid_header")

\* one request still holds the key set of before the rotation while the
\* next one has been accepted under the key published since
C10_Witness ==
    /\ req["r1"].pc = "verify"
    /\ req["r1"].jwks = [keys |-> <<Jwk("k1", "n1")>>]
    /\ req["r2"].pc = "done"
    /\ req["r2"].calls = 1
    /\ req["r2"].token = Compact("hK2", "pAll", "sN2")
    /\ req["r2"].jwks = [keys |-> <<Jwk("k2", "n2")>>]
    /\ jwksEndpoint = <<Jwk("k2", "n2")>>

====
